---- MODULE Spec2Model ----
(***************************************************************************)
(* SAR ADC "various processing of conversion result" example (main.c).     *)
(*                                                                         *)
(* Two execution contexts on one core: the foreground command loop of      *)
(* main() and the completion interrupt handle_SAR_ADC_IRQ().  The          *)
(* interrupt preempts the foreground between any two of its statements and *)
(* runs to completion; the foreground never runs while the handler is      *)
(* active.  The SAR block itself runs concurrently with both.              *)
(***************************************************************************)
EXTENDS Integers, Sequences, FiniteSets, TLC

(* enum OutputFmt *)
UNSIGNED_RIGHT_ALIGNED == 0
SIGNED_RIGHT_ALIGNED == 1
LEFT_ALIGNED == 2
FORMAT_NUM == 3

AVERAGE_COUNT_MIN == 1
AVERAGE_COUNT_MAX == 256
BAND_GAP_MV == 900

(* Width of uint16_t (resultVBG, resultAN0_raw, resultAN0). *)
UINT16_MAX == 65535

(* Interrupt causes of a SAR channel; a status is a set of causes. *)
CY_SAR2_INT_GRP_DONE == {"GRP_DONE"}
CY_SAR2_INT_CH_OVERFLOW == {"CH_OVERFLOW"}

(* The two contexts that can execute configure_SAR_ADC. *)
Contexts == {"main", "isr"}

(* Bytes Cy_SCB_UART_Get can hand to the loop: the three keys, some other  *)
(* key, and the "receive FIFO empty" value.                                *)
Bytes == {"a", "d", "s", "x", "none"}

(* Codes the result registers deliver in the interleaving model. *)
RawCodes == {0, 1024, 2048, 32768, 65535}
RefCodes == {0, 1024, 4095}

(* How the compiler may emit "if (++g > LEFT_ALIGNED) g = 0" on the plain  *)
(* (non-volatile) global: storing the incremented value before the test,   *)
(* or keeping it in a register and storing the final value only.           *)
Builds == {"store_each", "store_once"}

VARIABLES
    g_nextOutputFormat,   \* pending format
    g_nextAverageCount,   \* pending average count
    g_outputFormat,       \* active format
    g_averageCount,       \* active average count
    CE_SAR2_AN0_config,   \* channel configuration structure in RAM
    sar,                  \* SAR block: enabled, latched parameters, mask, status, conversion
    refBuf,               \* ePASS reference buffer mode
    nvic,                 \* TRUE once the handler is registered and the IRQ enabled
    pc,                   \* position of each context
    arg,                  \* configure_SAR_ADC arguments of each context
    uartReadValue,        \* local of the foreground loop
    intr,                 \* handler local: status read
    resultVBG,            \* handler local
    resultAN0_raw,        \* handler local
    resultAN0,            \* handler local
    console,              \* lines the handler has just printed
    calls,                \* per context: steps taken by the configure_SAR_ADC call in progress
    entry,                \* per context: state at entry of the configure_SAR_ADC call in progress
    build,                \* code generation of the 's' branch
    cycle                 \* observer of completed 's' commands: start format and count

vars == <<g_nextOutputFormat, g_nextAverageCount, g_outputFormat, g_averageCount,
          CE_SAR2_AN0_config, sar, refBuf, nvic, pc, arg, uartReadValue, intr,
          resultVBG, resultAN0_raw, resultAN0, console, calls, entry, build, cycle>>

----------------------------------------------------------------------------
(* Integer helpers, computed bit by bit. *)

RECURSIVE BitAnd(_, _)
BitAnd(a, b) ==
    IF a = 0 \/ b = 0 THEN 0
    ELSE (a % 2) * (b % 2) + 2 * BitAnd(a \div 2, b \div 2)

RECURSIVE ShiftRight(_, _)
ShiftRight(a, n) == IF n = 0 THEN a ELSE ShiftRight(a \div 2, n - 1)

U16(x) == x % (UINT16_MAX + 1)

U8(x) == x % 256

(* (uint8_t)(log(averageCount) / log(2)): the quotient of the two doubles  *)
(* is exact for the powers of two 1..256, so the cast truncates to the     *)
(* number of halvings that reach 1.                                        *)
RECURSIVE Log2Trunc(_)
Log2Trunc(n) == IF n <= 1 THEN 0 ELSE 1 + Log2Trunc(n \div 2)

----------------------------------------------------------------------------
(* Values of the state before anything is programmed. *)

NoArg == [outputFormat |-> -1, averageCount |-> -1]

NoEntry == [valid |-> FALSE]

ResetParams ==
    [rightShift |-> 0, averageCount |-> 0, resultAlignment |-> "NONE", signExtention |-> "NONE"]

NoConsole == <<>>

NoCycle == [on |-> FALSE, start |-> 0, n |-> 0]

(* Variant: the active pair is initialised with the defaults of the pending *)
(* pair instead of -1.                                                     *)
Init_ActivePreset ==
    /\ g_nextOutputFormat = UNSIGNED_RIGHT_ALIGNED
    /\ g_nextAverageCount = 1
    /\ g_outputFormat = UNSIGNED_RIGHT_ALIGNED
    /\ g_averageCount = 1
    /\ CE_SAR2_AN0_config \in
          [rightShift : {0}, averageCount : {1},
           resultAlignment : {"RIGHT", "LEFT"}, signExtention : {"UNSIGNED", "SIGNED"}]
    /\ sar = [enabled |-> FALSE, params |-> ResetParams, intrMask |-> {}, intr |-> {},
              busy |-> FALSE, conv |-> ResetParams]
    /\ refBuf = "OFF"
    /\ nvic = FALSE
    /\ pc = [c \in Contexts |-> IF c = "main" THEN "start" ELSE "idle"]
    /\ arg = [c \in Contexts |-> NoArg]
    /\ uartReadValue = "none"
    /\ intr = {}
    /\ resultVBG = 0
    /\ resultAN0_raw = 0
    /\ resultAN0 = 0
    /\ console = NoConsole
    /\ calls = [c \in Contexts |-> <<>>]
    /\ entry = [c \in Contexts |-> NoEntry]
    /\ build \in Builds
    /\ cycle = NoCycle

Init ==
    /\ g_nextOutputFormat = UNSIGNED_RIGHT_ALIGNED
    /\ g_nextAverageCount = 1
    /\ g_outputFormat = -1
    /\ g_averageCount = -1
    /\ CE_SAR2_AN0_config \in
          [rightShift : {0}, averageCount : {1},
           resultAlignment : {"RIGHT", "LEFT"}, signExtention : {"UNSIGNED", "SIGNED"}]
    /\ sar = [enabled |-> FALSE, params |-> ResetParams, intrMask |-> {}, intr |-> {},
              busy |-> FALSE, conv |-> ResetParams]
    /\ refBuf = "OFF"
    /\ nvic = FALSE
    /\ pc = [c \in Contexts |-> IF c = "main" THEN "start" ELSE "idle"]
    /\ arg = [c \in Contexts |-> NoArg]
    /\ uartReadValue = "none"
    /\ intr = {}
    /\ resultVBG = 0
    /\ resultAN0_raw = 0
    /\ resultAN0 = 0
    /\ console = NoConsole
    /\ calls = [c \in Contexts |-> <<>>]
    /\ entry = [c \in Contexts |-> NoEntry]
    /\ build \in Builds
    /\ cycle = NoCycle

----------------------------------------------------------------------------
(* Scheduling: the handler preempts the foreground and runs to completion. *)

Runs(c) == c = "isr" \/ pc["isr"] = "idle"

(* UNCHANGED groups *)
pendingVars == <<g_nextOutputFormat, g_nextAverageCount>>
activeVars == <<g_outputFormat, g_averageCount>>
hwVars == <<CE_SAR2_AN0_config, sar, refBuf, nvic>>
isrLocals == <<intr, resultVBG, resultAN0_raw, resultAN0, console>>
cfgGhost == <<calls, entry>>

----------------------------------------------------------------------------
(* Foreground: main() *)

(* main.c:155  configure_SAR_ADC(g_nextOutputFormat, g_nextAverageCount) *)
EnterConfigure(c) ==
    /\ arg' = [arg EXCEPT ![c] = [outputFormat |-> g_nextOutputFormat,
                                  averageCount |-> g_nextAverageCount]]
    /\ calls' = [calls EXCEPT ![c] = <<>>]
    /\ entry' = [entry EXCEPT ![c] =
                    [valid |-> TRUE, outputFormat |-> g_outputFormat,
                     averageCount |-> g_averageCount, config |-> CE_SAR2_AN0_config,
                     params |-> sar.params, enabled |-> sar.enabled,
                     intrMask |-> sar.intrMask, refBuf |-> refBuf, nvic |-> nvic]]
    /\ pc' = [pc EXCEPT ![c] = "cfg_check"]

MainConfigure ==
    /\ pc["main"] = "start"
    /\ Runs("main")
    /\ EnterConfigure("main")
    /\ UNCHANGED <<pendingVars, activeVars, hwVars, uartReadValue, isrLocals, build, cycle>>

(* main.c:162  uartReadValue = Cy_SCB_UART_Get(UART_HW) *)
MainRead ==
    /\ pc["main"] = "poll"
    /\ Runs("main")
    /\ \E b \in Bytes : uartReadValue' = b
    /\ pc' = [pc EXCEPT !["main"] = "dispatch"]
    /\ UNCHANGED <<pendingVars, activeVars, hwVars, arg, isrLocals, cfgGhost, build, cycle>>

(* Variant: the 'd' branch without the upper limit test. *)
AverageCountAfter_NoUpperLimit(key, count) ==
    IF key = "a" /\ count # AVERAGE_COUNT_MIN THEN ShiftRight(count, 1)
    ELSE IF key = "d" THEN count * 2
    ELSE count

(* Variant: the 'a' branch without the lower limit test. *)
AverageCountAfter_NoLowerLimit(key, count) ==
    IF key = "a" THEN ShiftRight(count, 1)
    ELSE IF key = "d" /\ count # AVERAGE_COUNT_MAX THEN count * 2
    ELSE count

(* main.c:166-173  the 'a' / 'd' branch *)
AverageCountAfter(key, count) ==
    IF key = "a" /\ count # AVERAGE_COUNT_MIN THEN ShiftRight(count, 1)
    ELSE IF key = "d" /\ count # AVERAGE_COUNT_MAX THEN count * 2
    ELSE count

(* Observer of the 's' branch (main.c:175-182): a switched-on observer      *)
(* remembers the pending format at which a run of 's' commands started and *)
(* counts the commands completed since, starting over after the third.     *)
SCommandStarts(cy, fmt) ==
    IF cy.on /\ cy.n = 3 THEN [on |-> TRUE, start |-> fmt, n |-> 0] ELSE cy

SCommandDone(cy) == IF cy.on THEN [cy EXCEPT !.n = cy.n + 1] ELSE cy

(* Variant: the wrap test written >= instead of >. *)
FormatAfter_WrapsEarly(fmt) ==
    IF fmt + 1 >= LEFT_ALIGNED THEN UNSIGNED_RIGHT_ALIGNED ELSE fmt + 1

(* main.c:178-181  the 's' branch, as one store *)
FormatAfter(fmt) ==
    IF fmt + 1 > LEFT_ALIGNED THEN UNSIGNED_RIGHT_ALIGNED ELSE fmt + 1

(* main.c:163-183  one pass over the if / else-if chain; the local          *)
(* uartReadValue ends with the iteration                                   *)
MainDispatch ==
    /\ pc["main"] = "dispatch"
    /\ Runs("main")
    /\ IF uartReadValue = "a" \/ uartReadValue = "d"
       THEN /\ g_nextAverageCount' = AverageCountAfter(uartReadValue, g_nextAverageCount)
            /\ UNCHANGED g_nextOutputFormat
            /\ pc' = [pc EXCEPT !["main"] = "poll"]
       ELSE IF uartReadValue = "s"
       THEN IF build = "store_once"
            THEN /\ g_nextOutputFormat' = FormatAfter(g_nextOutputFormat)
                 /\ UNCHANGED g_nextAverageCount
                 /\ pc' = [pc EXCEPT !["main"] = "poll"]
            ELSE /\ g_nextOutputFormat' = g_nextOutputFormat + 1
                 /\ UNCHANGED g_nextAverageCount
                 /\ pc' = [pc EXCEPT !["main"] = "s_cmp"]
       ELSE /\ UNCHANGED pendingVars
            /\ pc' = [pc EXCEPT !["main"] = "poll"]
    /\ uartReadValue' = IF pc'["main"] = "poll" THEN "none" ELSE uartReadValue
    /\ cycle' = IF uartReadValue # "s" THEN cycle
                ELSE IF pc'["main"] = "poll"
                THEN SCommandDone(SCommandStarts(cycle, g_nextOutputFormat))
                ELSE SCommandStarts(cycle, g_nextOutputFormat)
    /\ UNCHANGED <<activeVars, hwVars, arg, isrLocals, cfgGhost, build>>

(* Variant: the wrap assigns the active format instead of the pending one. *)
MainWrap_WritesActive ==
    /\ pc["main"] = "s_cmp"
    /\ Runs("main")
    /\ g_outputFormat' =
          IF g_nextOutputFormat > LEFT_ALIGNED THEN UNSIGNED_RIGHT_ALIGNED
          ELSE g_outputFormat
    /\ pc' = [pc EXCEPT !["main"] = "poll"]
    /\ uartReadValue' = "none"
    /\ cycle' = SCommandDone(cycle)
    /\ UNCHANGED <<pendingVars, g_averageCount, hwVars, arg, isrLocals, cfgGhost, build>>

(* main.c:178-181  the test and the wrap after the incremented value was stored; *)
(* main.c:183  the iteration ends and its local uartReadValue with it            *)
MainWrap ==
    /\ pc["main"] = "s_cmp"
    /\ Runs("main")
    /\ g_nextOutputFormat' =
          IF g_nextOutputFormat > LEFT_ALIGNED THEN UNSIGNED_RIGHT_ALIGNED
          ELSE g_nextOutputFormat
    /\ pc' = [pc EXCEPT !["main"] = "poll"]
    /\ uartReadValue' = "none"
    /\ cycle' = SCommandDone(cycle)
    /\ UNCHANGED <<g_nextAverageCount, activeVars, hwVars, arg, isrLocals, cfgGhost, build>>

----------------------------------------------------------------------------
(* configure_SAR_ADC(outputFormat, averageCount), executed by context c *)

Log(c, name) == calls' = [calls EXCEPT ![c] = Append(calls[c], name)]

Goto(c, label) == pc' = [pc EXCEPT ![c] = label]

(* Variant: the test always succeeds. *)
NeedsReprogram_Always(c) == TRUE

(* Variant: the test compares the average count only. *)
NeedsReprogram_CountOnly(c) == g_averageCount # arg[c].averageCount

(* main.c:266  if ((g_outputFormat != outputFormat) || (g_averageCount != averageCount)) *)
NeedsReprogram(c) ==
    (g_outputFormat # arg[c].outputFormat) \/ (g_averageCount # arg[c].averageCount)

(* Variant: the software trigger is issued on entry, before the test. *)
CfgCheck_TriggersFirst(c) ==
    /\ pc[c] = "cfg_check"
    /\ Runs(c)
    /\ IF NeedsReprogram(c) THEN Goto(c, "cfg_deinit") ELSE Goto(c, "cfg_adopt")
    /\ sar' = IF sar.enabled
              THEN [sar EXCEPT !.busy = TRUE, !.conv = sar.params]
              ELSE sar
    /\ UNCHANGED <<pendingVars, activeVars, CE_SAR2_AN0_config, refBuf, nvic, arg,
                   uartReadValue, isrLocals, cfgGhost, build, cycle>>

CfgCheck(c) ==
    /\ pc[c] = "cfg_check"
    /\ Runs(c)
    /\ IF NeedsReprogram(c) THEN Goto(c, "cfg_deinit") ELSE Goto(c, "cfg_adopt")
    /\ UNCHANGED <<pendingVars, activeVars, hwVars, arg, uartReadValue, isrLocals,
                   cfgGhost, build, cycle>>

(* main.c:269  Cy_SAR2_DeInit: the block is disabled, its channel registers *)
(* return to their reset values and a conversion in progress is lost.      *)
CfgDeInit(c) ==
    /\ pc[c] = "cfg_deinit"
    /\ Runs(c)
    /\ sar' = [enabled |-> FALSE, params |-> ResetParams, intrMask |-> {}, intr |-> {},
               busy |-> FALSE, conv |-> ResetParams]
    /\ Log(c, "DeInit")
    /\ Goto(c, "cfg_program")
    /\ UNCHANGED <<pendingVars, activeVars, CE_SAR2_AN0_config, refBuf, nvic, arg,
                   uartReadValue, isrLocals, entry, build, cycle>>

(* main.c:275-289  the alignment / sign-extension chosen for a format value *)
AlignmentFor(outputFormat) ==
    IF outputFormat = UNSIGNED_RIGHT_ALIGNED THEN "RIGHT"
    ELSE IF outputFormat = SIGNED_RIGHT_ALIGNED THEN "RIGHT"
    ELSE "LEFT"

SignExtentionFor(outputFormat) ==
    IF outputFormat = UNSIGNED_RIGHT_ALIGNED THEN "UNSIGNED"
    ELSE IF outputFormat = SIGNED_RIGHT_ALIGNED THEN "SIGNED"
    ELSE "UNSIGNED"

(* main.c:272-289  the structure values for the arguments *)
ConfigFor(outputFormat, averageCount) ==
    [rightShift |-> U8(Log2Trunc(averageCount)),
     averageCount |-> U16(averageCount),
     resultAlignment |-> AlignmentFor(outputFormat),
     signExtention |-> SignExtentionFor(outputFormat)]

CfgProgram(c) ==
    /\ pc[c] = "cfg_program"
    /\ Runs(c)
    /\ CE_SAR2_AN0_config' = ConfigFor(arg[c].outputFormat, arg[c].averageCount)
    /\ Log(c, "Program")
    /\ Goto(c, "cfg_init")
    /\ UNCHANGED <<pendingVars, activeVars, sar, refBuf, nvic, arg, uartReadValue,
                   isrLocals, entry, build, cycle>>

(* main.c:292  Cy_SAR2_Init: the block latches the structure and is enabled *)
CfgInit(c) ==
    /\ pc[c] = "cfg_init"
    /\ Runs(c)
    /\ sar' = [sar EXCEPT !.enabled = TRUE, !.params = CE_SAR2_AN0_config]
    /\ Log(c, "Init")
    /\ Goto(c, "cfg_refbuf")
    /\ UNCHANGED <<pendingVars, activeVars, CE_SAR2_AN0_config, refBuf, nvic, arg,
                   uartReadValue, isrLocals, entry, build, cycle>>

(* Variant: the interrupt mask is not set again after the init. *)
CfgRefBuf_SkipsMask(c) ==
    /\ pc[c] = "cfg_refbuf"
    /\ Runs(c)
    /\ refBuf' = "ON"
    /\ Log(c, "SetReferenceBufferMode")
    /\ Goto(c, "cfg_sysint")
    /\ UNCHANGED <<pendingVars, activeVars, CE_SAR2_AN0_config, sar, nvic, arg,
                   uartReadValue, isrLocals, entry, build, cycle>>

(* main.c:295  Cy_SAR2_SetReferenceBufferMode(..., CY_SAR2_REF_BUF_MODE_ON) *)
CfgRefBuf(c) ==
    /\ pc[c] = "cfg_refbuf"
    /\ Runs(c)
    /\ refBuf' = "ON"
    /\ Log(c, "SetReferenceBufferMode")
    /\ Goto(c, "cfg_mask")
    /\ UNCHANGED <<pendingVars, activeVars, CE_SAR2_AN0_config, sar, nvic, arg,
                   uartReadValue, isrLocals, entry, build, cycle>>

(* main.c:298  Cy_SAR2_Channel_SetInterruptMask(..., CY_SAR2_INT_GRP_DONE) *)
CfgMask(c) ==
    /\ pc[c] = "cfg_mask"
    /\ Runs(c)
    /\ sar' = [sar EXCEPT !.intrMask = CY_SAR2_INT_GRP_DONE]
    /\ Log(c, "SetInterruptMask")
    /\ Goto(c, "cfg_sysint")
    /\ UNCHANGED <<pendingVars, activeVars, CE_SAR2_AN0_config, refBuf, nvic, arg,
                   uartReadValue, isrLocals, entry, build, cycle>>

(* main.c:299-301  Cy_SysInt_Init, NVIC_SetPriority, NVIC_EnableIRQ *)
CfgSysInt(c) ==
    /\ pc[c] = "cfg_sysint"
    /\ Runs(c)
    /\ nvic' = TRUE
    /\ Log(c, "SysInt")
    /\ Goto(c, "cfg_adopt")
    /\ UNCHANGED <<pendingVars, activeVars, CE_SAR2_AN0_config, sar, refBuf, arg,
                   uartReadValue, isrLocals, entry, build, cycle>>

(* Variant: only the format is adopted. *)
CfgAdopt_FormatOnly(c) ==
    /\ pc[c] = "cfg_adopt"
    /\ Runs(c)
    /\ g_outputFormat' = arg[c].outputFormat
    /\ Log(c, "Adopt")
    /\ Goto(c, "cfg_trigger")
    /\ UNCHANGED <<pendingVars, g_averageCount, hwVars, arg, uartReadValue, isrLocals,
                   entry, build, cycle>>

(* main.c:305-306  g_outputFormat = outputFormat; g_averageCount = averageCount *)
CfgAdopt(c) ==
    /\ pc[c] = "cfg_adopt"
    /\ Runs(c)
    /\ g_outputFormat' = arg[c].outputFormat
    /\ g_averageCount' = arg[c].averageCount
    /\ Log(c, "Adopt")
    /\ Goto(c, "cfg_trigger")
    /\ UNCHANGED <<pendingVars, hwVars, arg, uartReadValue, isrLocals, entry, build, cycle>>

(* main.c:309  Cy_SAR2_Channel_SoftwareTrigger: an enabled block starts a   *)
(* conversion of the group with the parameters it holds.                   *)
CfgTrigger(c) ==
    /\ pc[c] = "cfg_trigger"
    /\ Runs(c)
    /\ sar' = IF sar.enabled
              THEN [sar EXCEPT !.busy = TRUE, !.conv = sar.params]
              ELSE sar
    /\ Log(c, "SoftwareTrigger")
    /\ Goto(c, "cfg_ret")
    /\ UNCHANGED <<pendingVars, activeVars, CE_SAR2_AN0_config, refBuf, nvic, arg,
                   uartReadValue, isrLocals, entry, build, cycle>>

(* main.c:310  return to the caller: line 157 in main, line 247 in the handler *)
CfgReturn(c) ==
    /\ pc[c] = "cfg_ret"
    /\ Runs(c)
    /\ Goto(c, IF c = "main" THEN "poll" ELSE "isr_ret")
    /\ arg' = [arg EXCEPT ![c] = NoArg]
    /\ calls' = [calls EXCEPT ![c] = <<>>]
    /\ entry' = [entry EXCEPT ![c] = NoEntry]
    /\ UNCHANGED <<pendingVars, activeVars, hwVars, uartReadValue, isrLocals, build, cycle>>

----------------------------------------------------------------------------
(* The SAR block *)

(* The conversion group started by the software trigger completes: the     *)
(* group-done cause is raised on the AN0 channel.                          *)
HwGroupDone ==
    /\ sar.enabled
    /\ sar.busy
    /\ sar' = [sar EXCEPT !.busy = FALSE, !.intr = sar.intr \cup CY_SAR2_INT_GRP_DONE]
    /\ UNCHANGED <<pendingVars, activeVars, CE_SAR2_AN0_config, refBuf, nvic, pc, arg,
                   uartReadValue, isrLocals, cfgGhost, build, cycle>>

(* Another cause of the same channel is raised while the group converts;   *)
(* it is not in the mask, so it does not request the interrupt by itself.  *)
HwOtherCause ==
    /\ sar.enabled
    /\ sar.busy
    /\ ~(CY_SAR2_INT_CH_OVERFLOW \subseteq sar.intr)
    /\ sar' = [sar EXCEPT !.intr = sar.intr \cup CY_SAR2_INT_CH_OVERFLOW]
    /\ UNCHANGED <<pendingVars, activeVars, CE_SAR2_AN0_config, refBuf, nvic, pc, arg,
                   uartReadValue, isrLocals, cfgGhost, build, cycle>>

----------------------------------------------------------------------------
(* handle_SAR_ADC_IRQ() *)

(* The masked status requests the interrupt; the handler is entered when   *)
(* the IRQ is enabled and the handler is not already running.              *)
IsrEnter ==
    /\ pc["isr"] = "idle"
    /\ nvic
    /\ sar.intr \cap sar.intrMask # {}
    /\ Goto("isr", "isr_status")
    /\ UNCHANGED <<pendingVars, activeVars, hwVars, arg, uartReadValue, isrLocals,
                   cfgGhost, build, cycle>>

(* main.c:205  intr = Cy_SAR2_Channel_GetInterruptStatus(...) *)
IsrGetStatus ==
    /\ pc["isr"] = "isr_status"
    /\ intr' = sar.intr
    /\ Goto("isr", "isr_clear")
    /\ UNCHANGED <<pendingVars, activeVars, hwVars, arg, uartReadValue, resultVBG,
                   resultAN0_raw, resultAN0, console, cfgGhost, build, cycle>>

(* Variant: only the group-done cause is cleared, whatever was read. *)
IsrClear_GroupDoneOnly ==
    /\ pc["isr"] = "isr_clear"
    /\ sar' = [sar EXCEPT !.intr = sar.intr \ CY_SAR2_INT_GRP_DONE]
    /\ Goto("isr", "isr_check")
    /\ UNCHANGED <<pendingVars, activeVars, CE_SAR2_AN0_config, refBuf, nvic, arg,
                   uartReadValue, isrLocals, cfgGhost, build, cycle>>

(* main.c:208  Cy_SAR2_Channel_ClearInterrupt(..., intr) *)
IsrClear ==
    /\ pc["isr"] = "isr_clear"
    /\ sar' = [sar EXCEPT !.intr = sar.intr \ intr]
    /\ Goto("isr", "isr_check")
    /\ UNCHANGED <<pendingVars, activeVars, CE_SAR2_AN0_config, refBuf, nvic, arg,
                   uartReadValue, isrLocals, cfgGhost, build, cycle>>

(* Variant: the test looks for the group-done bit among the causes read. *)
IsrCheck_BitTest ==
    /\ pc["isr"] = "isr_check"
    /\ IF CY_SAR2_INT_GRP_DONE \subseteq intr
       THEN Goto("isr", "isr_read") ELSE Goto("isr", "isr_ret")
    /\ UNCHANGED <<pendingVars, activeVars, hwVars, arg, uartReadValue, isrLocals,
                   cfgGhost, build, cycle>>

(* main.c:211  if (intr == CY_SAR2_INT_GRP_DONE) *)
IsrCheck ==
    /\ pc["isr"] = "isr_check"
    /\ IF intr = CY_SAR2_INT_GRP_DONE THEN Goto("isr", "isr_read") ELSE Goto("isr", "isr_ret")
    /\ UNCHANGED <<pendingVars, activeVars, hwVars, arg, uartReadValue, isrLocals,
                   cfgGhost, build, cycle>>

(* main.c:214-216  the two Cy_SAR2_Channel_GetResult calls *)
IsrRead ==
    /\ pc["isr"] = "isr_read"
    /\ \E vbg \in RefCodes, raw \in RawCodes :
          /\ resultVBG' = vbg
          /\ resultAN0_raw' = raw
          /\ resultAN0' = raw
    /\ Goto("isr", "isr_xform")
    /\ UNCHANGED <<pendingVars, activeVars, hwVars, arg, uartReadValue, intr, console,
                   cfgGhost, build, cycle>>

(* Variant: the raw code is not masked to 12 bits. *)
SignedResult_NoMask(raw) ==
    IF BitAnd(raw, 2048) # 0 THEN U16(raw - 2048) ELSE U16(raw + 2048)

(* main.c:220-233  the signed / right-aligned branch *)
SignedResult(raw) ==
    LET masked == BitAnd(raw, 4095)
    IN  IF BitAnd(masked, 2048) # 0 THEN U16(masked - 2048) ELSE U16(masked + 2048)

(* Variant: the mask is applied before the shift. *)
LeftResult_MaskFirst(raw) == ShiftRight(BitAnd(raw, 4095), 4)

(* main.c:237  the left-aligned branch *)
LeftResult(raw) == BitAnd(ShiftRight(raw, 4), 4095)

(* main.c:216-238  resultAN0 for the active format *)
Transform(outputFormat, raw) ==
    IF outputFormat = SIGNED_RIGHT_ALIGNED THEN SignedResult(raw)
    ELSE IF outputFormat = LEFT_ALIGNED THEN LeftResult(raw)
    ELSE raw

IsrTransform ==
    /\ pc["isr"] = "isr_xform"
    /\ resultAN0' = Transform(g_outputFormat, resultAN0_raw)
    /\ Goto("isr", "isr_render")
    /\ UNCHANGED <<pendingVars, activeVars, hwVars, arg, uartReadValue, intr, resultVBG,
                   resultAN0_raw, console, cfgGhost, build, cycle>>

(* main.c:83-88 *)
OUTPUT_FORMAT_STR ==
    [i \in 0 .. (FORMAT_NUM - 1) |->
        IF i = UNSIGNED_RIGHT_ALIGNED THEN "Unsigned/Right Aligned"
        ELSE IF i = SIGNED_RIGHT_ALIGNED THEN "Signed/Right Aligned  "
        ELSE "Left Aligned          "]

(* main.c:241  OUTPUT_FORMAT_STR[g_outputFormat]; an index outside the      *)
(* table reads whatever lies behind it.                                    *)
LabelOf(outputFormat) ==
    IF outputFormat \in DOMAIN OUTPUT_FORMAT_STR
    THEN OUTPUT_FORMAT_STR[outputFormat] ELSE "<out of range>"

(* main.c:243  ((uint32_t)resultAN0 * BAND_GAP_MV) / (uint32_t)resultVBG.  *)
(* The product of a uint16_t and 900 is below 2^32: no wrap-around.        *)
MilliVolts(code, reference) == (code * BAND_GAP_MV) \div reference

(* main.c:241-244  the four printf calls.  Indexing the label table out of *)
(* range and dividing by a zero reference are undefined: the build either   *)
(* prints something (an arbitrary label, a zero quotient) or faults.        *)
RenderDefined == g_outputFormat \in DOMAIN OUTPUT_FORMAT_STR /\ resultVBG # 0

IsrRender ==
    /\ pc["isr"] = "isr_render"
    /\ \/ /\ console' =
                [format |-> LabelOf(g_outputFormat),
                 averageCount |-> g_averageCount,
                 raw |-> resultAN0_raw,
                 millivolts |-> IF resultVBG # 0 THEN MilliVolts(resultAN0, resultVBG) ELSE 0]
          /\ Goto("isr", "isr_call")
       \/ /\ ~RenderDefined
          /\ Goto("isr", "fault")
          /\ UNCHANGED console
    /\ UNCHANGED <<pendingVars, activeVars, hwVars, arg, uartReadValue, intr, resultVBG,
                   resultAN0_raw, resultAN0, cfgGhost, build, cycle>>

(* main.c:246  configure_SAR_ADC(g_nextOutputFormat, g_nextAverageCount) *)
(* The block-scope results are dead once printed and the printed lines have *)
(* left through the UART: neither is carried into the call.                *)
IsrConfigure ==
    /\ pc["isr"] = "isr_call"
    /\ EnterConfigure("isr")
    /\ resultVBG' = 0
    /\ resultAN0_raw' = 0
    /\ resultAN0' = 0
    /\ console' = NoConsole
    /\ UNCHANGED <<pendingVars, activeVars, hwVars, uartReadValue, intr, build, cycle>>

(* main.c:247-248  the handler returns *)
IsrReturn ==
    /\ pc["isr"] = "isr_ret"
    /\ Goto("isr", "idle")
    /\ intr' = {}
    /\ UNCHANGED <<pendingVars, activeVars, hwVars, arg, uartReadValue, resultVBG,
                   resultAN0_raw, resultAN0, console, cfgGhost, build, cycle>>

----------------------------------------------------------------------------

Configure ==
    \E c \in Contexts :
        \/ CfgCheck(c)
        \/ CfgDeInit(c)
        \/ CfgProgram(c)
        \/ CfgInit(c)
        \/ CfgRefBuf(c)
        \/ CfgMask(c)
        \/ CfgSysInt(c)
        \/ CfgAdopt(c)
        \/ CfgTrigger(c)
        \/ CfgReturn(c)

Next ==
    \/ MainConfigure
    \/ MainRead
    \/ MainDispatch
    \/ MainWrap
    \/ Configure
    \/ HwGroupDone
    \/ HwOtherCause
    \/ IsrEnter
    \/ IsrGetStatus
    \/ IsrClear
    \/ IsrCheck
    \/ IsrRead
    \/ IsrTransform
    \/ IsrRender
    \/ IsrConfigure
    \/ IsrReturn

Spec == Init /\ [][Next]_vars

----------------------------------------------------------------------------
(* States the running program passes through, as starting points of the    *)
(* specifications of the command loop alone and of the transform alone.    *)

Formats == UNSIGNED_RIGHT_ALIGNED .. LEFT_ALIGNED

AverageCounts ==
    {n \in AVERAGE_COUNT_MIN .. AVERAGE_COUNT_MAX : \E k \in 0 .. 8 : n = 2 ^ k}

(* The state configure_SAR_ADC(fmt, count) leaves behind once it returned. *)
ConfiguredFor(fmt, count, converting) ==
    /\ g_outputFormat = fmt
    /\ g_averageCount = count
    /\ CE_SAR2_AN0_config = ConfigFor(fmt, count)
    /\ sar = [enabled |-> TRUE, params |-> ConfigFor(fmt, count),
              intrMask |-> CY_SAR2_INT_GRP_DONE, intr |-> {}, busy |-> converting,
              conv |-> ConfigFor(fmt, count)]
    /\ refBuf = "ON"
    /\ nvic = TRUE
    /\ arg = [c \in Contexts |-> NoArg]
    /\ calls = [c \in Contexts |-> <<>>]
    /\ entry = [c \in Contexts |-> NoEntry]

(* The foreground polls while the first conversion is still converting;    *)
(* any pending configuration may have been typed in by then.               *)
InitCmd ==
    /\ \E f \in Formats, n \in AverageCounts :
          /\ g_nextOutputFormat = f
          /\ g_nextAverageCount = n
          /\ cycle = [on |-> TRUE, start |-> f, n |-> 0]
    /\ ConfiguredFor(UNSIGNED_RIGHT_ALIGNED, 1, TRUE)
    /\ pc = [c \in Contexts |-> IF c = "main" THEN "poll" ELSE "idle"]
    /\ uartReadValue = "none"
    /\ intr = {}
    /\ resultVBG = 0
    /\ resultAN0_raw = 0
    /\ resultAN0 = 0
    /\ console = NoConsole
    /\ build \in Builds

NextCmd ==
    \/ MainRead
    \/ MainDispatch
    \/ MainWrap

SpecCmd == InitCmd /\ [][NextCmd]_vars

(* The handler has read a group-done status and the two results and is     *)
(* about to transform: every 16-bit raw code under every format.           *)
InitXform ==
    /\ \E f \in Formats :
          /\ g_nextOutputFormat = f
          /\ ConfiguredFor(f, 1, FALSE)
    /\ g_nextAverageCount = 1
    /\ \E raw \in 0 .. UINT16_MAX :
          /\ resultAN0_raw = raw
          /\ resultAN0 = raw
    /\ resultVBG = 1024
    /\ intr = CY_SAR2_INT_GRP_DONE
    /\ pc = [c \in Contexts |-> IF c = "main" THEN "poll" ELSE "isr_xform"]
    /\ uartReadValue = "none"
    /\ console = NoConsole
    /\ build = "store_each"
    /\ cycle = NoCycle

NextXform == IsrTransform

SpecXform == InitXform /\ [][NextXform]_vars

----------------------------------------------------------------------------
(* Properties *)

(* Positions inside configure_SAR_ADC. *)
CfgLabels ==
    {"cfg_check", "cfg_deinit", "cfg_program", "cfg_init", "cfg_refbuf", "cfg_mask",
     "cfg_sysint", "cfg_adopt", "cfg_trigger", "cfg_ret"}

(* Positions at which Cy_SAR2_DeInit is about to run or the block is torn   *)
(* down and not yet initialised again.                                     *)
TeardownLabels == {"cfg_deinit", "cfg_program", "cfg_init"}

(* The call in progress in context c was made with the active configuration. *)
CalledWithActive(c) ==
    /\ entry[c].valid
    /\ arg[c].outputFormat = entry[c].outputFormat
    /\ arg[c].averageCount = entry[c].averageCount

(* C1: under every interleaving of the foreground loop, the handler and the *)
(* SAR block, the teardown / re-init sequence never runs while a conversion *)
(* started by a software trigger has not yet raised its group-done event.   *)
C1_NoTeardownInFlight ==
    \A c \in Contexts : pc[c] \in TeardownLabels => ~sar.busy

(* C1 witness: the handler is about to tear down a running, idle block. *)
C1_Witness ==
    /\ pc["isr"] = "cfg_deinit"
    /\ sar.enabled
    /\ ~sar.busy
    /\ intr = CY_SAR2_INT_GRP_DONE

(* C2: a call of configure_SAR_ADC with the active configuration performs   *)
(* none of teardown, programming, init, reference buffer and interrupt mask *)
(* steps, leaves the active configuration, the structure and the hardware   *)
(* parameters as they were at entry, and ends having issued the trigger.    *)
C2_SameConfigOnlyTriggers ==
    \A c \in Contexts :
        (pc[c] \in CfgLabels /\ CalledWithActive(c)) =>
            /\ \A i \in DOMAIN calls[c] : calls[c][i] \in {"Adopt", "SoftwareTrigger"}
            /\ g_outputFormat = entry[c].outputFormat
            /\ g_averageCount = entry[c].averageCount
            /\ CE_SAR2_AN0_config = entry[c].config
            /\ sar.params = entry[c].params
            /\ sar.enabled = entry[c].enabled
            /\ sar.intrMask = entry[c].intrMask
            /\ refBuf = entry[c].refBuf
            /\ nvic = entry[c].nvic
            /\ (pc[c] = "cfg_ret" => calls[c] = <<"Adopt", "SoftwareTrigger">>)

(* C2 witness: active = pending = (UnsignedRightAligned, 4) and the call has *)
(* reached its end.                                                         *)
C2_Witness ==
    /\ pc["isr"] = "cfg_ret"
    /\ CalledWithActive("isr")
    /\ arg["isr"] = [outputFormat |-> UNSIGNED_RIGHT_ALIGNED, averageCount |-> 4]
    /\ calls["isr"] = <<"Adopt", "SoftwareTrigger">>

(* The order of section "configure_SAR_ADC" when the arguments differ. *)
ReprogramOrder ==
    <<"DeInit", "Program", "Init", "SetReferenceBufferMode", "SetInterruptMask",
      "Adopt", "SoftwareTrigger">>

IsClaimedStep(name) == name # "SysInt"

(* C3: a call of configure_SAR_ADC whose arguments differ from the active   *)
(* configuration in format or in count has, when it ends, performed         *)
(* teardown, programming, init, reference buffer on, interrupt mask,        *)
(* adoption and the trigger, each once and in this order, and the active    *)
(* configuration is the arguments.                                          *)
C3_ReprogramInOrder ==
    \A c \in Contexts :
        (pc[c] = "cfg_ret" /\ entry[c].valid /\ ~CalledWithActive(c)) =>
            /\ SelectSeq(calls[c], IsClaimedStep) = ReprogramOrder
            /\ g_outputFormat = arg[c].outputFormat
            /\ g_averageCount = arg[c].averageCount

(* C3 witness: active (UnsignedRightAligned, 1), called with               *)
(* (SignedRightAligned, 8): shift exponent 3, right alignment, signed.     *)
C3_Witness ==
    /\ pc["isr"] = "cfg_ret"
    /\ entry["isr"].valid
    /\ entry["isr"].outputFormat = UNSIGNED_RIGHT_ALIGNED
    /\ entry["isr"].averageCount = 1
    /\ arg["isr"] = [outputFormat |-> SIGNED_RIGHT_ALIGNED, averageCount |-> 8]
    /\ sar.params = [rightShift |-> 3, averageCount |-> 8, resultAlignment |-> "RIGHT",
                     signExtention |-> "SIGNED"]
    /\ SelectSeq(calls["isr"], IsClaimedStep) = ReprogramOrder

(* Positions at which the handler holds a sample it processes. *)
ProcessingLabels == {"isr_xform", "isr_render", "isr_call"}

(* C4: while the handler processes a sample, the active format is the one   *)
(* whose alignment and sign extension the block held when the conversion    *)
(* was triggered, whatever the pending configuration has become since; the  *)
(* transformed code and the printed label and count are those of the active *)
(* configuration.                                                           *)
C4_SampleUsesActiveFormat ==
    pc["isr"] \in ProcessingLabels =>
        /\ sar.conv.resultAlignment = AlignmentFor(g_outputFormat)
        /\ sar.conv.signExtention = SignExtentionFor(g_outputFormat)
        /\ (pc["isr"] = "isr_render" =>
               /\ (g_outputFormat = SIGNED_RIGHT_ALIGNED =>
                       resultAN0 = SignedResult(resultAN0_raw))
               /\ (g_outputFormat = LEFT_ALIGNED => resultAN0 = LeftResult(resultAN0_raw))
               /\ (g_outputFormat \notin {SIGNED_RIGHT_ALIGNED, LEFT_ALIGNED} =>
                       resultAN0 = resultAN0_raw))
        /\ (pc["isr"] = "isr_call" =>
               /\ console.format = LabelOf(g_outputFormat)
               /\ console.averageCount = g_averageCount)

(* C4 witness: a sample is being printed while the pending format already   *)
(* differs from the active one it was converted with.                       *)
C4_Witness ==
    /\ pc["isr"] = "isr_render"
    /\ g_outputFormat = SIGNED_RIGHT_ALIGNED
    /\ g_nextOutputFormat = LEFT_ALIGNED
    /\ sar.conv.signExtention = "SIGNED"
    /\ resultAN0_raw = 2048
    /\ resultAN0 = 0

(* C5: the pending average count is always a power of two in 1..256. *)
C5_PendingCountPowerOfTwo ==
    /\ g_nextAverageCount >= 1
    /\ g_nextAverageCount <= 256
    /\ \E k \in 0 .. 8 : g_nextAverageCount = 2 ^ k

(* C5 witness: the upper limit was reached and 'd' is about to be applied   *)
(* to it once more.                                                         *)
C5_Witness ==
    /\ g_nextAverageCount = 256
    /\ pc["main"] = "dispatch"
    /\ uartReadValue = "d"

(* A step of the foreground that handles the byte it read. *)
DispatchStep == pc["main"] = "dispatch" /\ pc'["main"] # "dispatch"

(* C6: 'a' halves a pending count above 1 and keeps 1; 'd' doubles a        *)
(* pending count below 256 and keeps 256; neither changes the pending       *)
(* format.                                                                  *)
C6_HalveDoubleClamped ==
    [][ DispatchStep =>
          /\ (uartReadValue = "a" =>
                 /\ (g_nextAverageCount > 1 => 2 * g_nextAverageCount' = g_nextAverageCount)
                 /\ (g_nextAverageCount = 1 => g_nextAverageCount' = 1)
                 /\ g_nextOutputFormat' = g_nextOutputFormat)
          /\ (uartReadValue = "d" =>
                 /\ (g_nextAverageCount < 256 => g_nextAverageCount' = 2 * g_nextAverageCount)
                 /\ (g_nextAverageCount = 256 => g_nextAverageCount' = 256)
                 /\ g_nextOutputFormat' = g_nextOutputFormat) ]_vars

(* C6 witness: 'a' is about to be applied to the lower limit. *)
C6_Witness ==
    /\ pc["main"] = "dispatch"
    /\ uartReadValue = "a"
    /\ g_nextAverageCount = 1
    /\ g_nextOutputFormat = LEFT_ALIGNED

(* The order of the formats named by the 's' command. *)
CycleOrder == <<UNSIGNED_RIGHT_ALIGNED, SIGNED_RIGHT_ALIGNED, LEFT_ALIGNED>>

(* C7: after k completed 's' commands from a starting format the pending    *)
(* format is k places further in the order UnsignedRightAligned,            *)
(* SignedRightAligned, LeftAligned, wrapping; after three it is the         *)
(* starting format again.                                                   *)
C7_FormatCycle ==
    (cycle.on /\ pc["main"] # "s_cmp") =>
        /\ cycle.n \in 0 .. 3
        /\ cycle.start \in 0 .. 2
        /\ g_nextOutputFormat = CycleOrder[((cycle.start + cycle.n) % 3) + 1]
        /\ (cycle.n = 3 => g_nextOutputFormat = cycle.start)

(* C7 witness: three 's' commands from LeftAligned, each stored in two      *)
(* steps, are complete.                                                     *)
C7_Witness ==
    /\ cycle.on
    /\ cycle.n = 3
    /\ cycle.start = LEFT_ALIGNED
    /\ g_nextOutputFormat = LEFT_ALIGNED
    /\ pc["main"] = "poll"
    /\ build = "store_each"

(* A step of the foreground loop: its position changes. *)
LoopLabels == {"poll", "dispatch", "s_cmp"}

LoopStep == pc["main"] \in LoopLabels /\ pc'["main"] # pc["main"]

(* C8: a step of the foreground loop leaves the active configuration, the   *)
(* structure, the SAR block (so no trigger), the reference buffer and the   *)
(* interrupt controller unchanged; reading a byte, and handling a byte      *)
(* other than 'a', 'd', 's', leave the pending configuration unchanged too. *)
C8_LoopTouchesOnlyPending ==
    [][ LoopStep =>
          /\ UNCHANGED <<g_outputFormat, g_averageCount, CE_SAR2_AN0_config, sar, refBuf,
                         nvic, calls, console>>
          /\ (pc["main"] = "poll" => UNCHANGED <<g_nextOutputFormat, g_nextAverageCount>>)
          /\ (pc["main"] = "dispatch" /\ uartReadValue \notin {"a", "d", "s"} =>
                 UNCHANGED <<g_nextOutputFormat, g_nextAverageCount>>) ]_vars

(* C8 witness: the loop is about to finish an 's' command while a           *)
(* conversion is in flight.                                                 *)
C8_Witness ==
    /\ pc["main"] = "s_cmp"
    /\ pc["isr"] = "idle"
    /\ g_nextOutputFormat = FORMAT_NUM
    /\ sar.busy

(* C9: under SignedRightAligned every 16-bit raw code r gives, with         *)
(* c = r mod 4096, c - 0x800 when bit 11 of c is set and c + 0x800          *)
(* otherwise; 0x800 gives 0 and the result is in 0..0xFFF.                 *)
C9_SignedTransform ==
    (pc["isr"] = "isr_render" /\ g_outputFormat = SIGNED_RIGHT_ALIGNED) =>
        LET c == resultAN0_raw % 4096
        IN  /\ ((c \div 2048) % 2 = 1 => resultAN0 = c - 2048)
            /\ ((c \div 2048) % 2 = 0 => resultAN0 = c + 2048)
            /\ (c = 2048 => resultAN0 = 0)
            /\ resultAN0 >= 0
            /\ resultAN0 <= 4095

(* C9 witness: the sign-extended mid-scale code 0xF800 was transformed. *)
C9_Witness ==
    /\ pc["isr"] = "isr_render"
    /\ g_outputFormat = SIGNED_RIGHT_ALIGNED
    /\ resultAN0_raw = 63488
    /\ resultAN0 = 0

(* C10: under LeftAligned every 16-bit raw code r gives (r >> 4) & 0xFFF,   *)
(* 0x8000 giving 0x800; under UnsignedRightAligned it gives r.              *)
C10_LeftAndUnsignedTransform ==
    pc["isr"] = "isr_render" =>
        /\ (g_outputFormat = LEFT_ALIGNED =>
               /\ resultAN0 = (resultAN0_raw \div 16) % 4096
               /\ (resultAN0_raw = 32768 => resultAN0 = 2048))
        /\ (g_outputFormat = UNSIGNED_RIGHT_ALIGNED => resultAN0 = resultAN0_raw)

(* C10 witness: the left-aligned code 0x8000 was transformed to 0x800. *)
C10_Witness ==
    /\ pc["isr"] = "isr_render"
    /\ g_outputFormat = LEFT_ALIGNED
    /\ resultAN0_raw = 32768
    /\ resultAN0 = 2048

(* C11: for every sample the handler prints, the millivolt value v is the   *)
(* truncated quotient of transformed code * 900 by the reference code:      *)
(* v * ref <= code * 900 < (v + 1) * ref; 1024 with reference 1024 gives    *)
(* 900.                                                                     *)
C11_MillivoltsIsFloor ==
    pc["isr"] = "isr_call" =>
        /\ console.millivolts * resultVBG <= resultAN0 * 900
        /\ resultAN0 * 900 < (console.millivolts + 1) * resultVBG
        /\ (resultAN0 = 1024 /\ resultVBG = 1024 => console.millivolts = 900)

(* C11 restricted to reference codes other than zero. *)
C11_FloorForNonZeroReference ==
    (pc["isr"] = "isr_call" /\ resultVBG # 0) =>
        /\ console.millivolts * resultVBG <= resultAN0 * 900
        /\ resultAN0 * 900 < (console.millivolts + 1) * resultVBG
        /\ (resultAN0 = 1024 /\ resultVBG = 1024 => console.millivolts = 900)

(* The handler has read a status that is not exactly group-done. *)
ForeignStatusRead ==
    /\ pc["isr"] \in {"isr_clear", "isr_check", "isr_ret"}
    /\ intr # CY_SAR2_INT_GRP_DONE

(* C12: a handler invocation whose status is not exactly group-done reads   *)
(* no result, prints nothing, does not call configure_SAR_ADC, issues no    *)
(* trigger, and leaves the active and pending configuration, the structure  *)
(* and the hardware parameters unchanged until it returns.                  *)
C12_ForeignStatusIgnored ==
    /\ [](ForeignStatusRead =>
            /\ resultVBG = 0
            /\ resultAN0_raw = 0
            /\ resultAN0 = 0
            /\ console = NoConsole
            /\ ~entry["isr"].valid
            /\ calls["isr"] = <<>>)
    /\ [][ ForeignStatusRead =>
             /\ pc'["isr"] \in {"isr_clear", "isr_check", "isr_ret", "idle"}
             /\ UNCHANGED <<g_outputFormat, g_averageCount, g_nextOutputFormat,
                            g_nextAverageCount, CE_SAR2_AN0_config, refBuf, nvic, arg,
                            calls, entry, console>>
             /\ sar'.params = sar.params
             /\ sar'.enabled = sar.enabled
             /\ sar'.intrMask = sar.intrMask
             /\ sar'.busy = sar.busy ]_vars

(* C12 witness: the handler returns after a status of group-done together   *)
(* with another cause.                                                      *)
C12_Witness ==
    /\ pc["isr"] = "isr_ret"
    /\ intr = CY_SAR2_INT_GRP_DONE \cup CY_SAR2_INT_CH_OVERFLOW
    /\ ~sar.busy

(* C13: every handler invocation ends with a software trigger issued, so    *)
(* that on its return a new conversion is in flight (or has completed       *)
(* already); every call of configure_SAR_ADC ends with the trigger.         *)
C13_TriggerEveryInvocation ==
    /\ (pc["isr"] = "isr_ret" => (sar.busy \/ CY_SAR2_INT_GRP_DONE \subseteq sar.intr))
    /\ \A c \in Contexts :
          pc[c] = "cfg_ret" =>
              (calls[c] # <<>> /\ calls[c][Len(calls[c])] = "SoftwareTrigger")

(* C14: the pending format the handler passes to configure_SAR_ADC and the  *)
(* active format it adopts are among the three variants; when the handler   *)
(* prints a sample the active format indexes the label table (it is neither *)
(* -1 nor FORMAT_NUM).                                                      *)
C14_FormatsAlwaysValid ==
    /\ (entry["isr"].valid => arg["isr"].outputFormat \in Formats)
    /\ (pc["isr"] # "idle" => g_outputFormat \in Formats)
    /\ (pc["isr"] = "isr_render" =>
           /\ g_outputFormat \in DOMAIN OUTPUT_FORMAT_STR
           /\ g_outputFormat # -1
           /\ g_outputFormat # FORMAT_NUM)

(* The active pair equals the pending pair. *)
ActiveIsPending ==
    /\ g_outputFormat = g_nextOutputFormat
    /\ g_averageCount = g_nextAverageCount

(* No command byte is being handled by the foreground. *)
NoCommand == uartReadValue \notin {"a", "d", "s"}

(* The handler has processed a group-done completion and adopted. *)
CompletionProcessed ==
    \/ pc["isr"] \in {"cfg_trigger", "cfg_ret"}
    \/ (pc["isr"] = "isr_ret" /\ intr = CY_SAR2_INT_GRP_DONE)

(* C15: once the handler has processed a group-done completion the active   *)
(* pair is the pending pair it passed to configure_SAR_ADC, which is the    *)
(* pending pair of that moment; and in every run in which commands          *)
(* eventually stop while completions keep being processed, the active pair  *)
(* eventually equals the pending pair for good.                             *)
C15_ActiveFollowsPending ==
    /\ [](CompletionProcessed =>
            /\ ActiveIsPending
            /\ (pc["isr"] \in CfgLabels =>
                   /\ g_outputFormat = arg["isr"].outputFormat
                   /\ g_averageCount = arg["isr"].averageCount))
    /\ ((<>[]NoCommand /\ []<>(pc["isr"] = "cfg_ret")) => <>[]ActiveIsPending)

(* C15 witness: the handler adopted a pending pair that was typed in while  *)
(* the conversion was in flight.                                            *)
C15_Witness ==
    /\ pc["isr"] = "cfg_ret"
    /\ entry["isr"].valid
    /\ entry["isr"].outputFormat = UNSIGNED_RIGHT_ALIGNED
    /\ entry["isr"].averageCount = 1
    /\ g_outputFormat = LEFT_ALIGNED
    /\ g_averageCount = 16
    /\ ActiveIsPending

(* The output-format table: alignment and sign handling of each variant. *)
FormatTable ==
    [f \in Formats |->
        IF f = UNSIGNED_RIGHT_ALIGNED THEN <<"RIGHT", "UNSIGNED">>
        ELSE IF f = SIGNED_RIGHT_ALIGNED THEN <<"RIGHT", "SIGNED">>
        ELSE <<"LEFT", "UNSIGNED">>]

(* The active configuration is set and no call of configure_SAR_ADC is      *)
(* between its teardown and its adoption.                                   *)
Settled ==
    /\ g_outputFormat # -1
    /\ \A c \in Contexts :
          pc[c] \notin {"cfg_program", "cfg_init", "cfg_refbuf", "cfg_mask", "cfg_sysint",
                        "cfg_adopt"}

(* C16: after the first reprogram, outside a reprogram in progress, the     *)
(* block's average count is the active count, its right-shift exponent e    *)
(* is in 0..8 with 2^e the active count, and its alignment and sign         *)
(* handling are the table row of the active format.                         *)
C16_HardwareMatchesActive ==
    Settled =>
        /\ sar.params.averageCount = g_averageCount
        /\ sar.params.rightShift \in 0 .. 8
        /\ 2 ^ sar.params.rightShift = g_averageCount
        /\ CE_SAR2_AN0_config = sar.params
        /\ g_outputFormat \in DOMAIN FormatTable
        /\ <<sar.params.resultAlignment, sar.params.signExtention>> = FormatTable[g_outputFormat]

(* Positions of the foreground up to, and excluding, its first trigger. *)
BeforeFirstTrigger ==
    {"start", "cfg_check", "cfg_deinit", "cfg_program", "cfg_init", "cfg_refbuf",
     "cfg_mask", "cfg_sysint", "cfg_adopt", "cfg_trigger"}

(* C17: the active pair starts at -1 / -1, which no pending pair ever       *)
(* equals, so the first call of configure_SAR_ADC takes the reprogram path; *)
(* until the first trigger no conversion is in flight and the handler has   *)
(* not run, and when the first trigger is issued the block is initialised   *)
(* with the parameters of the arguments, the reference buffer is on, the    *)
(* interrupt is armed and the active pair is set.                           *)
C17_FirstCallReprograms ==
    /\ (pc["main"] = "start" => (g_outputFormat = -1 /\ g_averageCount = -1))
    /\ g_nextOutputFormat # -1
    /\ g_nextAverageCount # -1
    /\ (pc["main"] \in CfgLabels => ~CalledWithActive("main"))
    /\ (pc["main"] \in BeforeFirstTrigger =>
           /\ ~sar.busy
           /\ sar.intr = {}
           /\ pc["isr"] = "idle")
    /\ (pc["main"] = "cfg_trigger" =>
           /\ calls["main"] = <<"DeInit", "Program", "Init", "SetReferenceBufferMode",
                                "SetInterruptMask", "SysInt", "Adopt">>
           /\ sar.enabled
           /\ sar.params = ConfigFor(arg["main"].outputFormat, arg["main"].averageCount)
           /\ sar.intrMask = CY_SAR2_INT_GRP_DONE
           /\ refBuf = "ON"
           /\ nvic
           /\ g_outputFormat = arg["main"].outputFormat
           /\ g_averageCount = arg["main"].averageCount)
    /\ ((sar.busy \/ pc["isr"] # "idle") => (g_outputFormat # -1 /\ g_averageCount # -1))

(* C17 witness: the foreground is about to issue the first trigger on the   *)
(* freshly programmed block.                                                *)
C17_Witness ==
    /\ pc["main"] = "cfg_trigger"
    /\ entry["main"].valid
    /\ entry["main"].outputFormat = -1
    /\ entry["main"].averageCount = -1
    /\ sar.enabled
    /\ ~sar.busy
    /\ g_outputFormat = UNSIGNED_RIGHT_ALIGNED
    /\ g_averageCount = 1

(* Positions of the handler after the acknowledge and before its trigger. *)
AfterAcknowledge ==
    {"isr_check", "isr_read", "isr_xform", "isr_render", "isr_call", "cfg_check",
     "cfg_deinit", "cfg_program", "cfg_init", "cfg_refbuf", "cfg_mask", "cfg_sysint",
     "cfg_adopt", "cfg_trigger"}

(* C18: in every invocation of the handler, whatever the status read, the   *)
(* step after the status read clears exactly the causes that were read and  *)
(* nothing else of the block; at that point no result has been read and no  *)
(* step of configure_SAR_ADC has run in this invocation; the status test,   *)
(* the result reads, the reconfiguration and the trigger are reached only   *)
(* through that step, and none of the causes read is pending while they run.*)
C18_AcknowledgeFirst ==
    /\ [](pc["isr"] \in {"isr_status", "isr_clear"} =>
             /\ resultVBG = 0 /\ resultAN0_raw = 0 /\ resultAN0 = 0
             /\ console = NoConsole
             /\ calls["isr"] = <<>>
             /\ ~entry["isr"].valid)
    /\ [](pc["isr"] \in AfterAcknowledge => sar.intr \cap intr = {})
    /\ [][ (pc["isr"] = "isr_status" /\ pc'["isr"] # "isr_status") =>
              (pc'["isr"] = "isr_clear" /\ intr' = sar.intr /\ sar' = sar) ]_vars
    /\ [][ (pc["isr"] = "isr_clear" /\ pc'["isr"] # "isr_clear") =>
              /\ pc'["isr"] = "isr_check"
              /\ sar' = [sar EXCEPT !.intr = sar.intr \ intr]
              /\ intr' = intr ]_vars
    /\ [][ (pc'["isr"] = "isr_check" /\ pc["isr"] # "isr_check") =>
              pc["isr"] = "isr_clear" ]_vars

(* C18 witness: an invocation with a foreign status has acknowledged both   *)
(* causes it read and is about to test the status.                          *)
C18_Witness ==
    /\ pc["isr"] = "isr_check"
    /\ intr = CY_SAR2_INT_GRP_DONE \cup CY_SAR2_INT_CH_OVERFLOW
    /\ sar.intr = {}
    /\ resultVBG = 0

====
